---------------------------- MODULE Spec2Model ----------------------------
(***************************************************************************)
(* Model of the ReplicaSet -> ConfigMap owner-reference operator           *)
(* (internal/controller/replicaset_controller.go).                         *)
(*                                                                         *)
(* The cluster is two object stores (ReplicaSets, ConfigMaps).  One        *)
(* reconciliation per workload key may be in flight; every API call (Get,  *)
(* Update) is one atomic step, so reconciliations of different keys        *)
(* interleave between their API calls.  Update is optimistic: it is        *)
(* rejected when the resourceVersion read differs from the stored one.     *)
(***************************************************************************)
EXTENDS Integers, Sequences, FiniteSets, TLC

VARIABLES
    Config,          \* r.Config, the OperatorConfig
    Env,             \* the process environment os.Getenv reads
    main,            \* how far the start of the process has got
    probe,           \* the last call of a function of the configuration
    cmStore0,        \* the ConfigMaps as they were before the operator acted
    rsStore,         \* the API server's ReplicaSets, by key
    cmStore,         \* the API server's ConfigMaps, by key
    pc,              \* per key: position of its Reconcile call
    rs,              \* per key: Reconcile's local `rs`
    configMapNames,  \* per key: Reconcile's local `configMapNames`
    idx,             \* per key: position of the range loop of Reconcile
    cm,              \* per key: processConfigMap's local `cm`
    result,          \* per key: what the last Reconcile call returned
    lastCall,        \* per key: the last API call of the call and its outcome
    nGet,            \* per key: ConfigMap Gets issued by the current call
    nUpdate,         \* per key: ConfigMap Updates issued by the current call
    quiet,           \* per key: outcome of the last call, "none" once anybody
                     \*          else has changed a store since it returned
    queue,           \* the controller's work queue: keys admitted by the predicate
    lastEvent        \* the last event offered to the predicate, and its verdict

vars == <<Config, Env, main, probe, cmStore0, rsStore, cmStore, pc, rs, configMapNames, idx, cm, result,
          lastCall, nGet, nUpdate, quiet, queue, lastEvent>>

---------------------------------------------------------------------------
(* Bounds of the model *)

\* creation timestamps range over 1..MaxTime
MaxTime == 3

\* resourceVersions of ConfigMaps range over 0..MaxVersion
MaxVersion == 3

\* r.StartTime, the watermark
StartTime == 2

Times == 1..MaxTime

---------------------------------------------------------------------------
(* Objects *)

NoObject == [kind |-> "None"]

Key(ns, n) == [namespace |-> ns, name |-> n]

\* the workload keys Reconcile is invoked for
Keys == {Key("default", "rs-a"), Key("default", "rs-b")}

\* the ConfigMap keys of the cluster
CMKeys == {Key("default", "cm1"), Key("default", "cm2"), Key("kube-system", "cm1")}

UIDOf(k) == IF k.name = "rs-a" THEN "u1" ELSE "u2"

NoConfigMap == "<nil>"

Volume(n, c) == [name |-> n, configMap |-> c]

\* pod templates: containers and init containers are lists of containers,
\* a container is the list of its volume mounts' names

\* a ConfigMap volume that no container mounts
UnmountedTemplate ==
    [containers |-> << <<>> >>, initContainers |-> <<>>,
     volumes |-> << Volume("v1", "cm1") >>]

\* one container mounting one ConfigMap volume
SingleTemplate ==
    [containers |-> << <<"v1">> >>, initContainers |-> <<>>,
     volumes |-> << Volume("v1", "cm1") >>]

\* cm1 through two volumes and two containers, cm2 discovered first, an
\* emptyDir, an unmounted ConfigMap volume and a mount without volume
SharedTemplate ==
    [containers |-> << <<"v2", "v1", "v9">>, <<"v4">> >>,
     initContainers |-> << <<"v3">> >>,
     volumes |-> << Volume("v1", "cm1"), Volume("v2", "cm2"), Volume("v3", "cm1"),
                    Volume("v4", NoConfigMap), Volume("v5", "cm2") >>]

\* ConfigMaps mounted by an init container only
InitOnlyTemplate ==
    [containers |-> << <<"v4">> >>, initContainers |-> << <<"v1", "v2">> >>,
     volumes |-> << Volume("v1", "cm1"), Volume("v2", "cm2"),
                    Volume("v4", NoConfigMap) >>]

Templates == {UnmountedTemplate, SingleTemplate, SharedTemplate, InitOnlyTemplate}

ReplicaSet(k, t, tpl) ==
    [kind |-> "ReplicaSet", namespace |-> k.namespace, name |-> k.name,
     uid |-> UIDOf(k), creationTimestamp |-> t, template |-> tpl]

OwnerRef(av, kd, n, u, c, b) ==
    [apiVersion |-> av, kind |-> kd, name |-> n, uid |-> u,
     controller |-> c, blockOwnerDeletion |-> b]

\* owner-reference lists a ConfigMap may carry before the operator acts
InitialOwnerLists ==
    { <<>>,
      \* owned by something that is no ReplicaSet
      << OwnerRef("apps/v1", "Deployment", "rs-a", "d1", TRUE, TRUE) >>,
      \* left by an earlier ReplicaSet of the same name
      << OwnerRef("apps/v1", "ReplicaSet", "rs-a", "u0", TRUE, TRUE) >>,
      \* left by two earlier ReplicaSets of the same name
      << OwnerRef("apps/v1", "ReplicaSet", "rs-a", "u0", FALSE, FALSE),
         OwnerRef("apps/v1", "ReplicaSet", "rs-a", "u9", FALSE, FALSE) >>,
      \* already owned by the current rs-a, and by somebody else
      << OwnerRef("apps/v1", "Deployment", "web", "d2", FALSE, FALSE),
         OwnerRef("apps/v1", "ReplicaSet", "rs-a", "u1", FALSE, FALSE) >> }

ConfigMap(k, owners, rv) ==
    [kind |-> "ConfigMap", namespace |-> k.namespace, name |-> k.name,
     ownerReferences |-> owners, resourceVersion |-> rv, data |-> "d"]

Exists(obj) == obj.kind # "None"

---------------------------------------------------------------------------
(* Strings as the regexp package sees them: lists of characters *)

Chars(s) ==
    CASE s = "default"     -> <<"d", "e", "f", "a", "u", "l", "t">>
      [] s = "kube-system" -> <<"k", "u", "b", "e", "-", "s", "y", "s", "t", "e", "m">>
      [] s = "^kube-.*"    -> <<"^", "k", "u", "b", "e", "-", ".", "*">>
      [] s = "^def"        -> <<"^", "d", "e", "f">>
      [] s = "["           -> <<"[">>
      [] s = "*x"          -> <<"*", "x">>
      [] s = "lt$"         -> <<"l", "t", "$">>
      [] s = "e.*t"        -> <<"e", ".", "*", "t">>
      [] OTHER             -> <<>>

Drop(s, n) == SubSeq(s, n + 1, Len(s))

\* regexp.Compile fails: a repetition operator without argument, an
\* unclosed character class
Malformed(re) ==
    \/ Len(re) > 0 /\ re[1] = "*"
    \/ Len(re) > 1 /\ re[1] = "^" /\ re[2] = "*"
    \/ \E i \in 1..Len(re) : re[i] = "["

RECURSIVE matchhere(_, _)
matchhere(re, text) ==
    IF re = <<>> THEN TRUE
    ELSE IF Len(re) >= 2 /\ re[2] = "*"
    THEN \E n \in 0..Len(text) :
            /\ \A i \in 1..n : re[1] = "." \/ re[1] = text[i]
            /\ matchhere(Drop(re, 2), Drop(text, n))
    ELSE IF re = <<"$">> THEN text = <<>>
    ELSE /\ text # <<>>
         /\ re[1] = "." \/ re[1] = text[1]
         /\ matchhere(Tail(re), Tail(text))

\* regexp.MatchString(pattern, s): (matched, err)
MatchString(pattern, s) ==
    LET re == Chars(pattern)
        text == Chars(s)
    IN  IF Malformed(re) THEN [matched |-> FALSE, err |-> "error parsing regexp"]
        ELSE [matched |-> IF re # <<>> /\ re[1] = "^"
                          THEN matchhere(Tail(re), text)
                          ELSE \E n \in 0..Len(text) : matchhere(re, Drop(text, n)),
              err |-> "nil"]

\* the pattern lists the operator may be configured with
PatternLists ==
    { <<>>, <<"^kube-.*">>, <<"[", "^def">> }

---------------------------------------------------------------------------
(* time.Time comparisons *)

Before(t, u) == t < u

After(t, u) == t > u


---------------------------------------------------------------------------
(* The reference extractor *)

\* the innermost loop of extractConfigMapVolumes: the volumes a mount names
\* scanVolumes without the configMapSet test
RECURSIVE scanVolumes_NoDedup(_, _, _)
scanVolumes_NoDedup(volumes, volumeMount, acc) ==
    IF volumes = <<>> THEN acc
    ELSE LET volume == Head(volumes)
             hit == /\ volume.name = volumeMount
                    /\ volume.configMap # NoConfigMap
         IN  scanVolumes_NoDedup(Tail(volumes), volumeMount,
                 IF hit
                 THEN [configMapSet |-> acc.configMapSet \cup {volume.configMap},
                       configMapNames |-> Append(acc.configMapNames, volume.configMap)]
                 ELSE acc)

RECURSIVE scanVolumes(_, _, _)
scanVolumes(volumes, volumeMount, acc) ==
    IF volumes = <<>> THEN acc
    ELSE LET volume == Head(volumes)
             hit == /\ volume.name = volumeMount
                    /\ volume.configMap # NoConfigMap
                    /\ volume.configMap \notin acc.configMapSet
         IN  scanVolumes(Tail(volumes), volumeMount,
                 IF hit
                 THEN [configMapSet |-> acc.configMapSet \cup {volume.configMap},
                       configMapNames |-> Append(acc.configMapNames, volume.configMap)]
                 ELSE acc)

RECURSIVE scanMounts(_, _, _)
scanMounts(volumeMounts, volumes, acc) ==
    IF volumeMounts = <<>> THEN acc
    ELSE scanMounts(Tail(volumeMounts), volumes,
                    scanVolumes(volumes, Head(volumeMounts), acc))

RECURSIVE scanContainers(_, _, _)
scanContainers(containers, volumes, acc) ==
    IF containers = <<>> THEN acc
    ELSE scanContainers(Tail(containers), volumes,
                        scanMounts(Head(containers), volumes, acc))

\* an extractor that takes every ConfigMap volume, mounted or not
extractConfigMapVolumes_AllVolumes(rsObj) ==
    LET tpl == rsObj.template
        start == [configMapSet |-> {}, configMapNames |-> <<>>]
        every == [i \in 1..Len(tpl.volumes) |-> tpl.volumes[i].name]
    IN  scanMounts(every, tpl.volumes, start).configMapNames

extractConfigMapVolumes(rsObj) ==
    LET tpl == rsObj.template
        start == [configMapSet |-> {}, configMapNames |-> <<>>]
        afterContainers == scanContainers(tpl.containers, tpl.volumes, start)
    IN  scanContainers(tpl.initContainers, tpl.volumes, afterContainers).configMapNames

---------------------------------------------------------------------------
(* The namespace filter *)

\* a loop that gives up at the first pattern that does not compile
RECURSIVE anyPatternMatches_StopAtMalformed(_, _)
anyPatternMatches_StopAtMalformed(patterns, namespace) ==
    IF patterns = <<>> THEN FALSE
    ELSE LET m == MatchString(Head(patterns), namespace)
         IN  IF m.err # "nil" THEN FALSE
             ELSE IF m.matched THEN TRUE
             ELSE anyPatternMatches_StopAtMalformed(Tail(patterns), namespace)

RECURSIVE anyPatternMatches(_, _)
anyPatternMatches(patterns, namespace) ==
    IF patterns = <<>> THEN FALSE
    ELSE LET m == MatchString(Head(patterns), namespace)
         IN  IF m.err # "nil" THEN anyPatternMatches(Tail(patterns), namespace)
             ELSE IF m.matched THEN TRUE
             ELSE anyPatternMatches(Tail(patterns), namespace)

shouldProcessNamespace_All(namespace) == TRUE

shouldProcessNamespace(namespace) ==
    IF Len(Config.NamespaceRegex) = 0 THEN TRUE
    ELSE anyPatternMatches(Config.NamespaceRegex, namespace)

---------------------------------------------------------------------------
(* Owner references *)

isOwnerReferencePresent_Never(cmObj, rsObj) == FALSE

\* a test that takes a record of the same kind and name for present,
\* whatever its uid
isOwnerReferencePresent_ByName(cmObj, rsObj) ==
    \E i \in 1..Len(cmObj.ownerReferences) :
        LET ownerRef == cmObj.ownerReferences[i]
        IN  /\ ownerRef.kind = "ReplicaSet"
            /\ ownerRef.name = rsObj.name

isOwnerReferencePresent(cmObj, rsObj) ==
    \E i \in 1..Len(cmObj.ownerReferences) :
        LET ownerRef == cmObj.ownerReferences[i]
        IN  /\ ownerRef.kind = "ReplicaSet"
            /\ ownerRef.name = rsObj.name
            /\ ownerRef.uid = rsObj.uid

\* schema.ParseGroupVersion(apiVersion).Group
GroupOf(apiVersion) ==
    CASE apiVersion = "apps/v1" -> "apps"
      [] apiVersion = "extensions/v1beta1" -> "extensions"
      [] OTHER -> ""

\* controllerutil's referSameObject: same group, kind and name
referSameObject(a, b) ==
    /\ GroupOf(a.apiVersion) = GroupOf(b.apiVersion)
    /\ a.kind = b.kind
    /\ a.name = b.name

\* controllerutil's indexOwnerRef: the first index referring to the same
\* object, 0 for none
indexOwnerRef(ownerReferences, ref) ==
    LET hits == {i \in 1..Len(ownerReferences) : referSameObject(ref, ownerReferences[i])}
    IN  IF hits = {} THEN 0 ELSE CHOOSE i \in hits : \A j \in hits : i <= j

SetOwnerReference_Noop(rsObj, cmObj) == cmObj

\* controllerutil.SetControllerReference instead: a controller reference
\* that blocks the deletion of the owner
SetOwnerReference_Controller(rsObj, cmObj) ==
    LET ref == OwnerRef("apps/v1", "ReplicaSet", rsObj.name, rsObj.uid, TRUE, TRUE)
        owners == cmObj.ownerReferences
        at == indexOwnerRef(owners, ref)
    IN  [cmObj EXCEPT !.ownerReferences =
            IF at = 0 THEN Append(owners, ref) ELSE [owners EXCEPT ![at] = ref]]

\* a SetOwnerReference that also rewrites the data of the ConfigMap
SetOwnerReference_TouchesData(rsObj, cmObj) ==
    LET ref == OwnerRef("apps/v1", "ReplicaSet", rsObj.name, rsObj.uid, FALSE, FALSE)
        owners == cmObj.ownerReferences
        at == indexOwnerRef(owners, ref)
    IN  [cmObj EXCEPT !.ownerReferences =
                          IF at = 0 THEN Append(owners, ref) ELSE [owners EXCEPT ![at] = ref],
                      !.data = "owned"]

\* a SetOwnerReference that drops the references of everybody else
SetOwnerReference_Overwrite(rsObj, cmObj) ==
    [cmObj EXCEPT !.ownerReferences =
        << OwnerRef("apps/v1", "ReplicaSet", rsObj.name, rsObj.uid, FALSE, FALSE) >>]

SetOwnerReference_AllMatches(rsObj, cmObj) ==
    LET ref == OwnerRef("apps/v1", "ReplicaSet", rsObj.name, rsObj.uid, FALSE, FALSE)
        owners == cmObj.ownerReferences
    IN  [cmObj EXCEPT !.ownerReferences =
            IF indexOwnerRef(owners, ref) = 0 THEN Append(owners, ref)
            ELSE [i \in 1..Len(owners) |->
                     IF referSameObject(ref, owners[i]) THEN ref ELSE owners[i]]]

\* controllerutil.SetOwnerReference(rs, &cm, r.Scheme): upsert of a reference
\* with neither Controller nor BlockOwnerDeletion set
SetOwnerReference(rsObj, cmObj) ==
    LET ref == OwnerRef("apps/v1", "ReplicaSet", rsObj.name, rsObj.uid, FALSE, FALSE)
        owners == cmObj.ownerReferences
        at == indexOwnerRef(owners, ref)
    IN  [cmObj EXCEPT !.ownerReferences =
            IF at = 0 THEN Append(owners, ref) ELSE [owners EXCEPT ![at] = ref]]

---------------------------------------------------------------------------
(* Decisions of Reconcile and processConfigMap *)

createdBeforeStart_Never(rsObj) == FALSE

\* the watermark check of Reconcile
createdBeforeStart(rsObj) == Before(rsObj.creationTimestamp, StartTime)

dryRunSkip_Off == FALSE

\* the dry-run check of processConfigMap
dryRunSkip == Config.DryRun

reconcileGetError_Strict(out) == "err"

\* what Reconcile returns when r.Get of the ReplicaSet fails
reconcileGetError(out) == IF out = "notfound" THEN "ok" ELSE "err"

processGetError_Strict(out) == "err"

\* a processConfigMap that takes every failure of r.Get for not-found
processGetError_Swallow(out) == "nil"

\* what processConfigMap returns when r.Get of the ConfigMap fails
processGetError(out) == IF out = "notfound" THEN "nil" ELSE "err"

\* an Update error that processConfigMap would swallow
processUpdateError_Swallow(out) == "nil"

\* processConfigMap returns every error of r.Update
processUpdateError(out) == "err"

---------------------------------------------------------------------------
(* The API server, as the client sees it *)

ObjectAt(store, key) == IF key \in DOMAIN store THEN store[key] ELSE NoObject

\* r.Get: the object, not-found, or another failure (unreachable server,
\* cancelled context)
GetOutcomes(store, key) ==
    {"error"} \cup (IF Exists(ObjectAt(store, key)) THEN {"found"} ELSE {"notfound"})

\* an Update that takes any version: the last write wins
UpdateOutcomes_LastWriteWins(obj) ==
    LET stored == ObjectAt(cmStore, Key(obj.namespace, obj.name))
    IN  {"error"} \cup
        (IF ~Exists(stored) THEN {"notfound"}
         ELSE IF obj.resourceVersion < MaxVersion THEN {"updated"} ELSE {})

\* r.Update: applied when the version read is the version stored
UpdateOutcomes(obj) ==
    LET stored == ObjectAt(cmStore, Key(obj.namespace, obj.name))
    IN  {"error"} \cup
        (IF ~Exists(stored) THEN {"notfound"}
         ELSE IF stored.resourceVersion # obj.resourceVersion THEN {"conflict"}
         ELSE IF stored.resourceVersion < MaxVersion THEN {"updated"} ELSE {})

NoCall == [op |-> "none", name |-> "", out |-> ""]

Call(op, name, out) == [op |-> op, name |-> name, out |-> out]


---------------------------------------------------------------------------
(* Initial states *)

NoEvent == [type |-> "none", object |-> NoObject, admitted |-> FALSE]

\* rs-a is any workload, created at any time; rs-b is a new workload that
\* shares ConfigMaps with it
InitialReplicaSets(k) ==
    IF k.name = "rs-a"
    THEN {NoObject} \cup {ReplicaSet(k, t, tpl) : t \in Times, tpl \in Templates}
    ELSE {NoObject} \cup {ReplicaSet(k, MaxTime, tpl) : tpl \in {SingleTemplate, InitOnlyTemplate}}

InitialConfigMaps(k) ==
    IF k = Key("default", "cm1")
    THEN {NoObject} \cup {ConfigMap(k, owners, 0) : owners \in InitialOwnerLists}
    ELSE IF k = Key("default", "cm2")
    THEN {NoObject, ConfigMap(k, <<>>, 0)}
    ELSE {ConfigMap(k, <<>>, 0)}

\* the environment with no variable set
NoEnv == [v \in {"NAMESPACE_REGEX", "DRY_RUN", "DEBUG", "TRACE"} |-> <<>>]

NoProbe == [fn |-> "none", arg |-> "", ret |-> ""]

\* the ConfigMaps and the inactive controller every specification starts from
InitCluster ==
    /\ cmStore \in [CMKeys -> UNION {InitialConfigMaps(k) : k \in CMKeys}]
    /\ \A k \in CMKeys : cmStore[k] \in InitialConfigMaps(k)
    /\ cmStore0 = cmStore
    /\ pc = [k \in Keys |-> "idle"]
    /\ rs = [k \in Keys |-> NoObject]
    /\ configMapNames = [k \in Keys |-> <<>>]
    /\ idx = [k \in Keys |-> 1]
    /\ cm = [k \in Keys |-> NoObject]
    /\ result = [k \in Keys |-> "none"]
    /\ lastCall = [k \in Keys |-> NoCall]
    /\ nGet = [k \in Keys |-> 0]
    /\ nUpdate = [k \in Keys |-> 0]
    /\ quiet = [k \in Keys |-> "none"]
    /\ queue = {}
    /\ lastEvent = NoEvent

Init ==
    /\ Config \in [NamespaceRegex : PatternLists, DryRun : BOOLEAN, Debug : {FALSE},
                   Trace : {FALSE}, namespaceRegexStr : {<<>>}]
    /\ Env = NoEnv
    /\ main = "running"
    /\ probe = NoProbe
    /\ rsStore \in [Keys -> UNION {InitialReplicaSets(k) : k \in Keys}]
    /\ \A k \in Keys : rsStore[k] \in InitialReplicaSets(k)
    /\ InitCluster

---------------------------------------------------------------------------
(* Reconcile, one API call per step *)

\* a worker of the controller takes the key off the queue when it calls Reconcile
Dequeued(k, viaQueue) == IF viaQueue THEN queue \ {k} ELSE queue

\* a controller that forgets a key whose Reconcile returned an error
AfterReturn_Forget(k, ret, viaQueue, q) == q

\* the controller requeues a key whose Reconcile returned an error
AfterReturn(k, ret, viaQueue, q) ==
    IF viaQueue /\ ret = "err" THEN q \cup {k} ELSE q

\* Reconcile returns ret
Return(k, ret, viaQueue, q) ==
    /\ pc' = [pc EXCEPT ![k] = "idle"]
    /\ result' = [result EXCEPT ![k] = ret]
    /\ queue' = AfterReturn(k, ret, viaQueue, q)

\* a loop that tries the same name again instead of moving on
NextName_Again(k, names, i, viaQueue) ==
    IF i < Len(names)
    THEN /\ pc' = [pc EXCEPT ![k] = "loop"]
         /\ idx' = [idx EXCEPT ![k] = i]
         /\ result' = [result EXCEPT ![k] = "none"]
         /\ queue' = queue
    ELSE /\ idx' = [idx EXCEPT ![k] = i]
         /\ Return(k, "ok", viaQueue, queue)

\* the range loop of Reconcile moves to the next name, or Reconcile returns nil
NextName(k, names, i, viaQueue) ==
    IF i < Len(names)
    THEN /\ pc' = [pc EXCEPT ![k] = "loop"]
         /\ idx' = [idx EXCEPT ![k] = i + 1]
         /\ result' = [result EXCEPT ![k] = "none"]
         /\ queue' = queue
    ELSE /\ idx' = [idx EXCEPT ![k] = i]
         /\ Return(k, "ok", viaQueue, queue)

\* Reconcile from its entry to the first processConfigMap
ReconcileCall(k, viaQueue) ==
    /\ pc[k] = "idle"
    /\ cm' = [cm EXCEPT ![k] = NoObject]
    /\ nGet' = [nGet EXCEPT ![k] = 0]
    /\ nUpdate' = [nUpdate EXCEPT ![k] = 0]
    /\ UNCHANGED <<Config, Env, main, probe, cmStore0, rsStore, cmStore, lastEvent>>
    /\ IF ~shouldProcessNamespace(k.namespace)
       THEN /\ rs' = [rs EXCEPT ![k] = NoObject]
            /\ configMapNames' = [configMapNames EXCEPT ![k] = <<>>]
            /\ lastCall' = [lastCall EXCEPT ![k] = NoCall]
            /\ idx' = [idx EXCEPT ![k] = 1]
            /\ quiet' = [quiet EXCEPT ![k] = "ok"]
            /\ Return(k, "ok", viaQueue, Dequeued(k, viaQueue))
       ELSE \E out \in GetOutcomes(rsStore, k) :
            /\ lastCall' = [lastCall EXCEPT ![k] = Call("GetReplicaSet", k.name, out)]
            /\ IF out # "found"
               THEN /\ rs' = [rs EXCEPT ![k] = NoObject]
                    /\ configMapNames' = [configMapNames EXCEPT ![k] = <<>>]
                    /\ idx' = [idx EXCEPT ![k] = 1]
                    /\ quiet' = [quiet EXCEPT ![k] = reconcileGetError(out)]
                    /\ Return(k, reconcileGetError(out), viaQueue, Dequeued(k, viaQueue))
               ELSE /\ rs' = [rs EXCEPT ![k] = rsStore[k]]
                    /\ IF createdBeforeStart(rsStore[k])
                       THEN /\ configMapNames' = [configMapNames EXCEPT ![k] = <<>>]
                            /\ idx' = [idx EXCEPT ![k] = 1]
                            /\ quiet' = [quiet EXCEPT ![k] = "ok"]
                            /\ Return(k, "ok", viaQueue, Dequeued(k, viaQueue))
                       ELSE LET names == extractConfigMapVolumes(rsStore[k])
                            IN  /\ configMapNames' = [configMapNames EXCEPT ![k] = names]
                                /\ IF Len(names) = 0
                                   THEN /\ idx' = [idx EXCEPT ![k] = 1]
                                        /\ quiet' = [quiet EXCEPT ![k] = "ok"]
                                        /\ Return(k, "ok", viaQueue, Dequeued(k, viaQueue))
                                   ELSE /\ idx' = [idx EXCEPT ![k] = 1]
                                        /\ quiet' = quiet
                                        /\ pc' = [pc EXCEPT ![k] = "loop"]
                                        /\ result' = [result EXCEPT ![k] = "none"]
                                        /\ queue' = Dequeued(k, viaQueue)

\* processConfigMap from its entry to r.Update (or to its return)
ProcessGet(k, viaQueue) ==
    /\ pc[k] = "loop"
    /\ LET name == configMapNames[k][idx[k]]
           cmKey == Key(rs[k].namespace, name)
       IN  \E out \in GetOutcomes(cmStore, cmKey) :
           /\ lastCall' = [lastCall EXCEPT ![k] = Call("GetConfigMap", name, out)]
           /\ nGet' = [nGet EXCEPT ![k] = @ + 1]
           /\ UNCHANGED <<Config, Env, main, probe, cmStore0, rsStore, cmStore, rs, configMapNames, nUpdate, lastEvent>>
           /\ IF out # "found"
              THEN /\ cm' = cm
                   /\ IF processGetError(out) = "nil"
                      THEN /\ NextName(k, configMapNames[k], idx[k], viaQueue)
                           /\ quiet' = IF idx[k] < Len(configMapNames[k]) THEN quiet
                                       ELSE [quiet EXCEPT ![k] = "ok"]
                      ELSE /\ idx' = idx
                           /\ quiet' = [quiet EXCEPT ![k] = "err"]
                           /\ Return(k, "err", viaQueue, queue)
              ELSE IF isOwnerReferencePresent(cmStore[cmKey], rs[k]) \/ dryRunSkip
              THEN /\ cm' = [cm EXCEPT ![k] = cmStore[cmKey]]
                   /\ NextName(k, configMapNames[k], idx[k], viaQueue)
                   /\ quiet' = IF idx[k] < Len(configMapNames[k]) THEN quiet
                               ELSE [quiet EXCEPT ![k] = "ok"]
              ELSE /\ cm' = [cm EXCEPT ![k] = SetOwnerReference(rs[k], cmStore[cmKey])]
                   /\ pc' = [pc EXCEPT ![k] = "update"]
                   /\ UNCHANGED <<idx, result, quiet, queue>>

\* r.Update of processConfigMap, and its return
ProcessUpdate(k, viaQueue) ==
    /\ pc[k] = "update"
    /\ \E out \in UpdateOutcomes(cm[k]) :
       /\ lastCall' = [lastCall EXCEPT ![k] = Call("UpdateConfigMap", cm[k].name, out)]
       /\ nUpdate' = [nUpdate EXCEPT ![k] = @ + 1]
       /\ UNCHANGED <<Config, Env, main, probe, cmStore0, rsStore, rs, configMapNames, cm, nGet, lastEvent>>
       /\ IF out = "updated"
          THEN /\ cmStore' = [cmStore EXCEPT ![Key(cm[k].namespace, cm[k].name)] =
                                 [cm[k] EXCEPT !.resourceVersion = @ + 1]]
               /\ NextName(k, configMapNames[k], idx[k], viaQueue)
               /\ quiet' = [j \in Keys |->
                              IF j # k THEN "none"
                              ELSE IF idx[k] < Len(configMapNames[k]) THEN quiet[k]
                              ELSE "ok"]
          ELSE /\ cmStore' = cmStore
               /\ IF processUpdateError(out) = "nil"
                  THEN /\ NextName(k, configMapNames[k], idx[k], viaQueue)
                       /\ quiet' = IF idx[k] < Len(configMapNames[k]) THEN quiet
                                   ELSE [quiet EXCEPT ![k] = "ok"]
                  ELSE /\ idx' = idx
                       /\ quiet' = [quiet EXCEPT ![k] = "err"]
                       /\ Return(k, "err", viaQueue, queue)

\* Reconcile invoked directly, for any key, any number of times
Reconcile(k) == ReconcileCall(k, FALSE)

Next ==
    \E k \in Keys :
        \/ Reconcile(k)
        \/ ProcessGet(k, FALSE)
        \/ ProcessUpdate(k, FALSE)

Spec == Init /\ [][Next]_vars


---------------------------------------------------------------------------
(* The event admission predicate and the controller that applies it *)

Event(t, o) == [type |-> t, object |-> o]

CreateFunc_NotBefore(e) ==
    IF e.object.kind # "ReplicaSet" THEN FALSE
    ELSE ~Before(e.object.creationTimestamp, StartTime)

CreateFunc(e) ==
    IF e.object.kind # "ReplicaSet" THEN FALSE
    ELSE After(e.object.creationTimestamp, StartTime)

UpdateFunc(e) == FALSE

DeleteFunc(e) == FALSE

GenericFunc(e) == FALSE

\* WithEventFilter(replicaSetPredicate): the function of the event's type decides
Admits(e) ==
    CASE e.type = "Create"  -> CreateFunc(e)
      [] e.type = "Update"  -> UpdateFunc(e)
      [] e.type = "Delete"  -> DeleteFunc(e)
      [] e.type = "Generic" -> GenericFunc(e)

\* an object of another kind, which the type assertion of CreateFunc rejects
OtherObject ==
    [kind |-> "Pod", namespace |-> "default", name |-> "rs-a", uid |-> "p1",
     creationTimestamp |-> MaxTime]

Offered(e) == [type |-> e.type, object |-> e.object, admitted |-> Admits(e)]

\* an admitted event enqueues the key of its object
Enqueue(e) ==
    IF Admits(e) THEN queue \cup {Key(e.object.namespace, e.object.name)} ELSE queue

\* the watch delivers a create, update or generic event of a stored
\* ReplicaSet, or of an object of another kind
DeliverEvent(t, o) ==
    /\ lastEvent' = Offered(Event(t, o))
    /\ queue' = Enqueue(Event(t, o))
    /\ UNCHANGED <<Config, Env, main, probe, cmStore0, rsStore, cmStore, pc, rs, configMapNames, idx, cm,
                   result, lastCall, nGet, nUpdate, quiet>>

\* a ReplicaSet is deleted; the watch delivers its delete event
DeleteReplicaSet(k) ==
    /\ Exists(rsStore[k])
    /\ rsStore' = [rsStore EXCEPT ![k] = NoObject]
    /\ lastEvent' = Offered(Event("Delete", rsStore[k]))
    /\ queue' = Enqueue(Event("Delete", rsStore[k]))
    /\ quiet' = [j \in Keys |-> "none"]
    /\ UNCHANGED <<Config, Env, main, probe, cmStore0, cmStore, pc, rs, configMapNames, idx, cm, result,
                   lastCall, nGet, nUpdate>>

\* a worker takes a key from the queue and calls Reconcile
Worker(k) ==
    /\ k \in queue
    /\ pc[k] = "idle"
    /\ ReconcileCall(k, TRUE)

\* the events the watch may deliver
Deliverable ==
    {Event(t, o) : t \in {"Create", "Update", "Generic"},
                   o \in {rsStore[k] : k \in {j \in Keys : Exists(rsStore[j])}}
                         \cup {OtherObject}}

\* the controller runs with the default configuration (every namespace, no
\* dry run) in a cluster whose ConfigMaps have no owner yet; both workloads
\* exist, rs-a created at any time, and mount ConfigMaps
InitCtrl ==
    /\ Init
    /\ Config.NamespaceRegex = <<>>
    /\ ~Config.DryRun
    /\ Exists(cmStore[Key("default", "cm2")])
    /\ \A c \in CMKeys : Exists(cmStore[c]) => cmStore[c].ownerReferences = <<>>
    /\ \A k \in Keys : Exists(rsStore[k])
    /\ rsStore[Key("default", "rs-a")].template \in {SingleTemplate, SharedTemplate}
    /\ rsStore[Key("default", "rs-b")].template = SingleTemplate

NextCtrl ==
    \/ \E e \in Deliverable : DeliverEvent(e.type, e.object)
    \/ \E k \in Keys :
          \/ DeleteReplicaSet(k)
          \/ Worker(k)
          \/ ProcessGet(k, TRUE)
          \/ ProcessUpdate(k, TRUE)

\* the controller: Reconcile runs only for keys the predicate admitted, and
\* again after it returned an error
SpecCtrl == InitCtrl /\ [][NextCtrl]_vars


---------------------------------------------------------------------------
(* Vocabulary of the properties *)

---------------------------------------------------------------------------
(* The controller under fair scheduling *)

ConfigMapNames == {"cm1", "cm2"}

\* a worker's call of Reconcile whose Get of the workload does not fail
GoodWorker(k) == Worker(k) /\ lastCall'[k].out # "error"

\* a Get of the ConfigMap called name that does not fail
GoodGet(k, name) ==
    /\ ProcessGet(k, TRUE)
    /\ lastCall'[k].name = name
    /\ lastCall'[k].out # "error"

\* an Update of the ConfigMap called name that is applied or meets a conflict
GoodUpdate(k, name) ==
    /\ ProcessUpdate(k, TRUE)
    /\ lastCall'[k].name = name
    /\ lastCall'[k].out # "error"

\* a queued key is handed to a worker, and no call of the API server fails
\* for ever for the same object, other than by conflict
Fairness ==
    \A k \in Keys :
        /\ SF_vars(GoodWorker(k))
        /\ \A name \in ConfigMapNames :
              SF_vars(GoodGet(k, name)) /\ SF_vars(GoodUpdate(k, name))

\* both workloads are new; rs-a mounts cm2 and cm1, rs-b mounts cm1
InitLive ==
    /\ InitCtrl
    /\ rsStore[Key("default", "rs-a")].template = SharedTemplate
    /\ rsStore[Key("default", "rs-a")].creationTimestamp = MaxTime
    /\ \A c \in CMKeys : Exists(cmStore[c])

\* the watch delivers the create events of the workloads, the workers run
NextLive ==
    \E k \in Keys :
        \/ DeliverEvent("Create", rsStore[k])
        \/ Worker(k)
        \/ ProcessGet(k, TRUE)
        \/ ProcessUpdate(k, TRUE)

SpecLive == InitLive /\ [][NextLive]_vars /\ Fairness

\* the state of the cluster and of the controller
clusterVars ==
    <<rsStore, cmStore, cmStore0, pc, rs, configMapNames, idx, cm, result, lastCall,
      nGet, nUpdate, quiet, queue, lastEvent>>

---------------------------------------------------------------------------
(* The namespace filter over generated pattern lists *)

MaxPatterns == 2

\* well-formed patterns (anchored, unanchored, empty) and malformed ones
FilterPatterns == {"^kube-.*", "^def", "[", "*x", "lt$", "e.*t", ""}

GeneratedPatternLists == UNION {[1..n -> FilterPatterns] : n \in 0..MaxPatterns}

Namespaces == {"default", "kube-system"}

\* a running operator with a generated pattern list, in a cluster without
\* workloads
InitFilter ==
    /\ Config \in [NamespaceRegex : GeneratedPatternLists, DryRun : {FALSE},
                   Debug : {FALSE}, Trace : {FALSE}, namespaceRegexStr : {<<>>}]
    /\ Env = NoEnv
    /\ main = "running"
    /\ probe = NoProbe
    /\ rsStore = [k \in Keys |-> NoObject]
    /\ InitCluster
    /\ \A c \in CMKeys : Exists(cmStore[c]) /\ cmStore[c].ownerReferences = <<>>

\* r.shouldProcessNamespace(namespace) is called
ShouldProcessNamespace(namespace) ==
    /\ main = "running"
    /\ probe' = [fn |-> "shouldProcessNamespace", arg |-> namespace,
                 ret |-> shouldProcessNamespace(namespace)]
    /\ UNCHANGED <<Config, Env, main, clusterVars>>

NextFilter == \E namespace \in Namespaces : ShouldProcessNamespace(namespace)

SpecFilter == InitFilter /\ [][NextFilter]_vars

---------------------------------------------------------------------------
(* The configuration: flags, environment, FinalizeConfig and LogLevel.
   Here a string is the sequence of its characters. *)

MaxEnvLen == 3

trueValue == <<"t", "r", "u", "e">>

\* strings.TrimSpace
RECURSIVE TrimSpace(_)
TrimSpace(str) ==
    IF str = <<>> THEN str
    ELSE IF Head(str) = " " THEN TrimSpace(Tail(str))
    ELSE IF str[Len(str)] = " " THEN TrimSpace(SubSeq(str, 1, Len(str) - 1))
    ELSE str

\* strings.Split(str, ",")
RECURSIVE Split(_)
Split(str) ==
    LET commas == {i \in 1..Len(str) : str[i] = ","}
    IN  IF commas = {} THEN <<str>>
        ELSE LET first == CHOOSE i \in commas : \A j \in commas : i <= j
             IN  <<SubSeq(str, 1, first - 1)>> \o Split(Drop(str, first))

\* a pattern list taken from a string: split on commas, every element trimmed
parsePatterns(str) ==
    LET parts == Split(str)
    IN  [i \in 1..Len(parts) |-> TrimSpace(parts[i])]

\* a FinalizeConfig in which a flag, once given, is not overridden
FinalizedConfig_FlagWins(c, env) ==
    [NamespaceRegex |-> IF c.namespaceRegexStr # <<>> THEN parsePatterns(c.namespaceRegexStr)
                        ELSE IF env["NAMESPACE_REGEX"] # <<>>
                        THEN parsePatterns(env["NAMESPACE_REGEX"])
                        ELSE c.NamespaceRegex,
     DryRun |-> c.DryRun,
     Debug |-> c.Debug,
     Trace |-> c.Trace,
     namespaceRegexStr |-> c.namespaceRegexStr]

\* the configuration FinalizeConfig leaves, from the one flag.Parse left
FinalizedConfig(c, env) ==
    LET fromFlag == IF c.namespaceRegexStr # <<>> THEN parsePatterns(c.namespaceRegexStr)
                    ELSE c.NamespaceRegex
        trace == env["TRACE"] = trueValue
    IN  [NamespaceRegex |-> IF env["NAMESPACE_REGEX"] # <<>>
                            THEN parsePatterns(env["NAMESPACE_REGEX"])
                            ELSE fromFlag,
         DryRun |-> IF env["DRY_RUN"] = trueValue THEN TRUE ELSE c.DryRun,
         Debug |-> IF env["DEBUG"] = trueValue \/ trace THEN TRUE ELSE c.Debug,
         Trace |-> IF trace THEN TRUE ELSE c.Trace,
         namespaceRegexStr |-> c.namespaceRegexStr]

\* a LogLevel that looks at Debug first
LogLevel_DebugFirst(c) == IF c.Debug THEN -1 ELSE IF c.Trace THEN -2 ELSE 0

LogLevel(c) == IF c.Trace THEN -2 ELSE IF c.Debug THEN -1 ELSE 0

\* the values of --namespace-regex: not given, one pattern, two patterns
\* with a space after the comma
FlagStrings == {<<>>, <<"b">>, <<"b", ",", " ", "c">>}

\* the values of NAMESPACE_REGEX: the strings of letters, commas and spaces
EnvStrings == UNION {[1..n -> {"a", ",", " "}] : n \in 0..MaxEnvLen}

\* the values of DRY_RUN, DEBUG and TRACE: unset, "true", and others
EnvSwitches == {<<>>, trueValue, <<"1">>}

\* NewConfig and flag.Parse have run, with any flags and any environment
InitConfig ==
    /\ rsStore = [k \in Keys |-> NoObject]
    /\ InitCluster
    /\ \A c \in CMKeys : Exists(cmStore[c]) /\ cmStore[c].ownerReferences = <<>>
    /\ main = "parsed"
    /\ probe = NoProbe
    /\ Config \in [NamespaceRegex : {<<>>}, DryRun : BOOLEAN, Debug : BOOLEAN,
                   Trace : BOOLEAN, namespaceRegexStr : FlagStrings]
    /\ Env \in [NAMESPACE_REGEX : EnvStrings, DRY_RUN : EnvSwitches,
                DEBUG : EnvSwitches, TRACE : EnvSwitches]

\* c.FinalizeConfig(), once, after flag.Parse
FinalizeConfig ==
    /\ main = "parsed"
    /\ main' = "finalized"
    /\ Config' = FinalizedConfig(Config, Env)
    /\ probe' = [fn |-> "FinalizeConfig", arg |-> Config, ret |-> Config']
    /\ UNCHANGED <<Env, clusterVars>>

\* c.LogLevel() is called
CallLogLevel ==
    /\ main \in {"parsed", "finalized"}
    /\ probe' = [fn |-> "LogLevel", arg |-> Config, ret |-> LogLevel(Config)]
    /\ UNCHANGED <<Config, Env, main, clusterVars>>

NextConfig == FinalizeConfig \/ CallLogLevel

SpecConfig == InitConfig /\ [][NextConfig]_vars

---------------------------------------------------------------------------
(* Reconcile over generated pod templates *)

MaxMounts == 2

MountNames == {"v1", "v2"}

\* a container: the names of its volume mounts, in order
MountLists == UNION {[1..n -> MountNames] : n \in 0..MaxMounts}

\* no container or one, primary and init alike
ContainerLists == {<<>>} \cup {<<m>> : m \in MountLists}

InitContainerLists == {<<>>} \cup {<<m>> : m \in MountLists}

\* two volumes, each a ConfigMap volume or a volume of another kind
VolumeLists ==
    {<<Volume("v1", a), Volume("v2", b)>> : a, b \in {"cm1", "cm2", NoConfigMap}}

GeneratedTemplates ==
    [containers : ContainerLists, initContainers : InitContainerLists,
     volumes : VolumeLists]

\* one new workload with a generated template, every ConfigMap present and
\* without owners, no namespace pattern, dry-run off
InitExtract ==
    /\ Config = [NamespaceRegex |-> <<>>, DryRun |-> FALSE, Debug |-> FALSE,
                 Trace |-> FALSE, namespaceRegexStr |-> <<>>]
    /\ Env = NoEnv
    /\ main = "running"
    /\ probe = NoProbe
    /\ \E tpl \in GeneratedTemplates :
          rsStore = [k \in Keys |-> IF k.name = "rs-a" THEN ReplicaSet(k, MaxTime, tpl)
                                    ELSE NoObject]
    /\ InitCluster
    /\ \A c \in CMKeys : Exists(cmStore[c]) /\ cmStore[c].ownerReferences = <<>>

SpecExtract == InitExtract /\ [][Next]_vars

---------------------------------------------------------------------------
(* vocabulary of the properties *)

Range(seq) == {seq[i] : i \in 1..Len(seq)}

\* the ConfigMaps referenced by a volume that some container (primary or
\* init) of the workload mounts
MountedConfigMaps(rsObj) ==
    LET tpl == rsObj.template
        mounts == UNION {Range(c) : c \in Range(tpl.containers) \cup Range(tpl.initContainers)}
    IN  {v.configMap : v \in {w \in Range(tpl.volumes) :
                                 w.configMap # NoConfigMap /\ w.name \in mounts}}

\* the positions of a ConfigMap's records for (ReplicaSet, name, uid) of the workload
RecordsOf(cmObj, rsObj) ==
    {i \in 1..Len(cmObj.ownerReferences) :
        /\ cmObj.ownerReferences[i].kind = "ReplicaSet"
        /\ cmObj.ownerReferences[i].name = rsObj.name
        /\ cmObj.ownerReferences[i].uid = rsObj.uid}

\* the pattern list is non-empty and no pattern of it matches the namespace
NamespaceExcluded(namespace) ==
    /\ Config.NamespaceRegex # <<>>
    /\ \A i \in 1..Len(Config.NamespaceRegex) :
          ~MatchString(Config.NamespaceRegex[i], namespace).matched

\* an existing ConfigMap the workload mounts and does not own yet
MountsUnowned(k, rsObj) ==
    \E n \in MountedConfigMaps(rsObj) :
        /\ Exists(ObjectAt(cmStore, Key(k.namespace, n)))
        /\ RecordsOf(cmStore[Key(k.namespace, n)], rsObj) = {}

---------------------------------------------------------------------------
(* C1 *)

\* C1: once Reconcile has returned without error for a workload created
\* after the start time, in an in-scope namespace and with dry-run off, every
\* existing ConfigMap of its namespace that a volume mounted by one of its
\* containers references carries exactly one record (ReplicaSet, name, uid)
\* of that workload.
C1_OwnerAddedOnSuccess ==
    \A k \in Keys :
        ( /\ pc[k] = "idle"
          /\ result[k] = "ok"
          /\ Exists(rs[k])
          /\ ~NamespaceExcluded(k.namespace)
          /\ After(rs[k].creationTimestamp, StartTime)
          /\ ~Config.DryRun )
        => \A n \in MountedConfigMaps(rs[k]) :
              LET c == ObjectAt(cmStore, Key(k.namespace, n))
              IN  Exists(c) => Cardinality(RecordsOf(c, rs[k])) = 1

\* a reconciliation wrote its record and returned without error, on a
\* ConfigMap that another workload had written before
C1_Witness ==
    \E k \in Keys :
        /\ pc[k] = "idle" /\ result[k] = "ok" /\ Exists(rs[k])
        /\ After(rs[k].creationTimestamp, StartTime)
        /\ lastCall[k] = Call("UpdateConfigMap", "cm1", "updated")
        /\ cmStore[Key("default", "cm1")].resourceVersion = 2
        /\ Cardinality(RecordsOf(cmStore[Key("default", "cm1")], rs[k])) = 1

---------------------------------------------------------------------------
(* C2 *)

\* C2 (as amended): after a Reconcile of a workload that returned without
\* error, and with no change of the cluster by anybody else since, a further
\* Reconcile of that workload issues no Update and leaves every ConfigMap as
\* it is.
C2_RepeatAfterSuccessWritesNothing ==
    [][ \A k \in Keys :
          (quiet[k] = "ok" /\ quiet'[k] # "none")
          => (cmStore' = cmStore /\ pc'[k] # "update" /\ nUpdate'[k] <= nUpdate[k]) ]_vars

\* the second call has fetched a ConfigMap that the first one wrote, found
\* its record and gone on
C2_Witness ==
    \E k \in Keys :
        /\ quiet[k] = "ok"
        /\ pc[k] = "loop" /\ idx[k] = 2
        /\ lastCall[k] = Call("GetConfigMap", configMapNames[k][1], "found")
        /\ cm[k].resourceVersion > 0
        /\ RecordsOf(cm[k], rs[k]) # {}

\* C2 (as claimed): after any Reconcile of a workload, with no change of the
\* cluster by anybody else since, a further Reconcile of that workload
\* performs no write.
C2_RepeatWritesNothing ==
    [][ \A k \in Keys :
          (quiet[k] \in {"ok", "err"} /\ quiet'[k] # "none")
          => cmStore' = cmStore ]_vars

---------------------------------------------------------------------------
(* C3 *)

\* C3: no stored ConfigMap carries two owner references with the same
\* (kind, name, uid).
C3_NoDuplicateOwner ==
    \A c \in CMKeys :
        Exists(cmStore[c]) =>
            \A i, j \in 1..Len(cmStore[c].ownerReferences) :
                LET a == cmStore[c].ownerReferences[i]
                    b == cmStore[c].ownerReferences[j]
                IN  (a.kind = b.kind /\ a.name = b.name /\ a.uid = b.uid) => i = j

\* two workloads share a ConfigMap that carried two references of earlier
\* ReplicaSets of the same name; both have written it
C3_Witness ==
    LET c == cmStore[Key("default", "cm1")]
    IN  /\ Exists(c)
        /\ c.resourceVersion = 2
        /\ Len(c.ownerReferences) = 3
        /\ \A k \in Keys : Exists(rsStore[k]) /\ RecordsOf(c, rsStore[k]) # {}

---------------------------------------------------------------------------
(* C4 *)

\* C4: with dry-run enabled no step changes any ConfigMap, and no
\* reconciliation gets to an Update.
C4_DryRunWritesNothing ==
    [][ Config.DryRun => (cmStore' = cmStore /\ \A k \in Keys : pc'[k] # "update") ]_vars

\* a dry-run reconciliation has returned without error for a new workload
\* that mounts an existing ConfigMap it does not own
C4_Witness ==
    \E k \in Keys :
        /\ Config.DryRun
        /\ pc[k] = "idle" /\ result[k] = "ok" /\ Exists(rs[k])
        /\ lastCall[k].op = "GetConfigMap" /\ lastCall[k].out = "found"
        /\ MountsUnowned(k, rs[k])

---------------------------------------------------------------------------
(* C5 *)

\* C5: for a key whose namespace matches none of a non-empty pattern list,
\* every Reconcile returns at once and without error, and no step changes a
\* ConfigMap of that namespace.
C5_ExcludedNamespaceUntouched ==
    [][ \A k \in Keys :
          NamespaceExcluded(k.namespace)
          => /\ pc'[k] = "idle"
             /\ result'[k] \in {"ok", result[k]}
             /\ result'[k] # "err"
             /\ lastCall'[k] = NoCall
             /\ \A c \in CMKeys :
                   c.namespace = k.namespace => cmStore'[c] = cmStore[c] ]_vars

\* Reconcile has returned for an excluded namespace although the workload
\* exists, is new and mounts an existing ConfigMap it does not own
C5_Witness ==
    \E k \in Keys :
        /\ NamespaceExcluded(k.namespace)
        /\ result[k] = "ok"
        /\ Exists(rsStore[k])
        /\ After(rsStore[k].creationTimestamp, StartTime)
        /\ ~Config.DryRun
        /\ MountsUnowned(k, rsStore[k])

---------------------------------------------------------------------------
(* C6 *)

\* C6: a workload created before the start time never gets Reconcile past
\* the watermark check: no ConfigMap is fetched or updated for it, and a
\* Reconcile that fetched it returns without error.
C6_OldWorkloadNeverLinked ==
    \A k \in Keys :
        /\ (Exists(rsStore[k]) /\ Before(rsStore[k].creationTimestamp, StartTime))
           => (pc[k] = "idle" /\ nGet[k] = 0 /\ nUpdate[k] = 0)
        /\ (Exists(rs[k]) /\ Before(rs[k].creationTimestamp, StartTime))
           => (pc[k] = "idle" /\ result[k] = "ok" /\ configMapNames[k] = <<>>)

\* Reconcile has returned for an old workload in an in-scope namespace that
\* mounts an existing ConfigMap it does not own, dry-run off
C6_Witness ==
    \E k \in Keys :
        /\ Exists(rs[k]) /\ Before(rs[k].creationTimestamp, StartTime)
        /\ result[k] = "ok"
        /\ ~Config.DryRun
        /\ MountsUnowned(k, rs[k])

---------------------------------------------------------------------------
(* C7 *)

\* C7: a workload created exactly at the start time is not new: Reconcile
\* returns without error at the watermark check, fetching and updating no
\* ConfigMap, as the admission predicate rejects the workload.
C7_EqualIsNotNew ==
    \A k \in Keys :
        (Exists(rs[k]) /\ rs[k].creationTimestamp = StartTime)
        => /\ ~CreateFunc(Event("Create", rs[k]))
           /\ pc[k] = "idle" /\ result[k] = "ok"
           /\ nGet[k] = 0 /\ nUpdate[k] = 0

---------------------------------------------------------------------------
(* C8 *)

---------------------------------------------------------------------------
(* C9 *)

\* C9: a Get of a referenced ConfigMap that answers not-found changes no
\* ConfigMap and leads to no Update; the loop goes on to the next name, and
\* after the last name Reconcile returns without error.
C9_MissingConfigMapSkipped ==
    [][ \A k \in Keys :
          ( /\ nGet'[k] = nGet[k] + 1
            /\ lastCall'[k].op = "GetConfigMap"
            /\ lastCall'[k].out = "notfound" )
          => /\ cmStore' = cmStore
             /\ IF idx[k] < Len(configMapNames[k])
                THEN pc'[k] = "loop" /\ idx'[k] = idx[k] + 1
                ELSE pc'[k] = "idle" /\ result'[k] = "ok" ]_vars

\* the first name was not found, and the reconciliation has gone on to
\* write its record on the second and returned without error
C9_Witness ==
    \E k \in Keys :
        /\ pc[k] = "idle" /\ result[k] = "ok"
        /\ Len(configMapNames[k]) = 2
        /\ ~Exists(ObjectAt(cmStore, Key(k.namespace, configMapNames[k][1])))
        /\ nGet[k] = 2 /\ nUpdate[k] = 1
        /\ lastCall[k] = Call("UpdateConfigMap", configMapNames[k][2], "updated")

---------------------------------------------------------------------------
(* C10 *)

\* C10: when the Get of the workload answers not-found, Reconcile returns
\* without error and has fetched and updated no ConfigMap.
C10_MissingWorkloadIgnored ==
    \A k \in Keys :
        (lastCall[k].op = "GetReplicaSet" /\ lastCall[k].out = "notfound")
        => /\ pc[k] = "idle" /\ result[k] = "ok"
           /\ nGet[k] = 0 /\ nUpdate[k] = 0
           /\ configMapNames[k] = <<>>

\* Reconcile has returned for a workload that is gone, in an in-scope
\* namespace
C10_Witness ==
    \E k \in Keys :
        /\ ~Exists(rsStore[k])
        /\ ~NamespaceExcluded(k.namespace)
        /\ lastCall[k] = Call("GetReplicaSet", k.name, "notfound")
        /\ result[k] = "ok"

\* the mount names of the workload, primary containers first, then init
\* containers, each container's mounts in order
RECURSIVE Flatten(_)
Flatten(lists) == IF lists = <<>> THEN <<>> ELSE Head(lists) \o Flatten(Tail(lists))

MountSequence(rsObj) ==
    Flatten(rsObj.template.containers) \o Flatten(rsObj.template.initContainers)

\* the first position at which a mount of the workload leads to the ConfigMap
FirstDiscovery(rsObj, name) ==
    LET mounts == MountSequence(rsObj)
        leads(i) == \E v \in Range(rsObj.template.volumes) :
                        v.name = mounts[i] /\ v.configMap = name
    IN  CHOOSE i \in 1..Len(mounts) : leads(i) /\ \A j \in 1..(i - 1) : ~leads(j)

\* the ConfigMaps named by a volume of the workload
VolumeConfigMaps(rsObj) ==
    {v.configMap : v \in {w \in Range(rsObj.template.volumes) : w.configMap # NoConfigMap}}

\* C11: once Reconcile has extracted the names of a workload, a name is in
\* the result exactly when some primary or init container has a mount named
\* like a volume that references the ConfigMap; a ConfigMap the workload
\* does not mount that way carries no record of the workload.
C11_UnmountedNeverExtracted ==
    /\ \A k \in Keys : Exists(rs[k]) =>
          Range(configMapNames[k]) = MountedConfigMaps(rs[k])
    /\ \A k \in Keys, c \in CMKeys :
          (/\ Exists(rsStore[k]) /\ Exists(cmStore[c])
           /\ (c.namespace # k.namespace \/ c.name \notin MountedConfigMaps(rsStore[k])))
          => RecordsOf(cmStore[c], rsStore[k]) = {}

\* a reconciliation has succeeded and linked a ConfigMap, while another
\* ConfigMap that only an unmounted volume references stays without owners
C11_Witness ==
    \E k \in Keys :
        /\ pc[k] = "idle" /\ result[k] = "ok" /\ Exists(rs[k])
        /\ nUpdate[k] > 0
        /\ \E name \in VolumeConfigMaps(rs[k]) \ MountedConfigMaps(rs[k]) :
              cmStore[Key(k.namespace, name)].ownerReferences = <<>>

\* C12: the extracted names hold no name twice and stand in the order of
\* first discovery (primary containers in order, their mounts in order, then
\* init containers); a ConfigMap the workload mounts is written at most once
\* and holds exactly one record of the workload once Reconcile has succeeded.
C12_ExtractedOnceInDiscoveryOrder ==
    \A k \in Keys : Exists(rs[k]) =>
        LET names == configMapNames[k]
        IN  /\ \A i, j \in 1..Len(names) :
                  /\ names[i] = names[j] => i = j
                  /\ i < j => FirstDiscovery(rs[k], names[i]) < FirstDiscovery(rs[k], names[j])
            /\ \A name \in MountedConfigMaps(rs[k]) :
                  LET stored == cmStore[Key(k.namespace, name)]
                  IN  /\ stored.resourceVersion <= 1
                      /\ Cardinality(RecordsOf(stored, rs[k])) <= 1
                      /\ (pc[k] = "idle" /\ result[k] = "ok") =>
                            /\ Cardinality(RecordsOf(stored, rs[k])) = 1
                            /\ stored.resourceVersion = 1

\* a workload that reaches one ConfigMap through two volumes, one mounted by
\* a primary container and one by an init container, reconciled with one write
C12_Witness ==
    \E k \in Keys :
        /\ pc[k] = "idle" /\ result[k] = "ok" /\ Exists(rs[k])
        /\ Len(rs[k].template.containers) = 1 /\ Len(rs[k].template.initContainers) = 1
        /\ \E v, w \in Range(rs[k].template.volumes) :
              /\ v.name # w.name /\ v.configMap = w.configMap /\ v.configMap # NoConfigMap
              /\ v.name \in Range(rs[k].template.containers[1])
              /\ w.name \in Range(rs[k].template.initContainers[1])
        /\ nUpdate[k] = 1

---------------------------------------------------------------------------
(* C13 *)

\* the ConfigMap a reconciliation is about to update, as stored now
StoredFor(k) == ObjectAt(cmStore, Key(cm[k].namespace, cm[k].name))

\* the reconciliation of k is at r.Update with a version that is no longer
\* the stored one
HoldsStale(k) ==
    /\ pc[k] = "update"
    /\ Exists(StoredFor(k))
    /\ StoredFor(k).resourceVersion # cm[k].resourceVersion

\* C13: an Update built on a stale version changes nothing and makes its
\* Reconcile return an error; an Update that is applied was built on the
\* stored version; and no step removes from a ConfigMap the record of an
\* existing workload, so a record written by a reconciliation that succeeded
\* is never lost to a concurrent write.
C13_StaleWriteRejected ==
    [][/\ \A k \in Keys :
            (HoldsStale(k) /\ pc'[k] # "update") =>
                /\ cmStore' = cmStore
                /\ pc'[k] = "idle" /\ result'[k] = "err"
                /\ lastCall'[k].op = "UpdateConfigMap"
                /\ lastCall'[k].out \in {"conflict", "error"}
       /\ \A k \in Keys :
            (pc[k] = "update" /\ pc'[k] # "update" /\ cmStore' # cmStore) =>
                StoredFor(k).resourceVersion = cm[k].resourceVersion
       /\ \A k \in Keys, c \in CMKeys :
            (/\ Exists(rsStore[k]) /\ Exists(cmStore[c])
             /\ RecordsOf(cmStore[c], rsStore[k]) # {})
            => RecordsOf(cmStore'[c], rsStore[k]) # {}]_vars

\* two workloads read the same version of cm1; the first wrote its record and
\* returned success, the second's Update met a conflict and returned an
\* error, and cm1 still holds the first one's record and not the second's
C13_Witness ==
    \E k, j \in Keys :
        /\ k # j
        /\ pc[j] = "idle" /\ result[j] = "ok" /\ Exists(rs[j])
        /\ lastCall[j] = Call("UpdateConfigMap", "cm1", "updated")
        /\ pc[k] = "idle" /\ result[k] = "err" /\ Exists(rs[k])
        /\ lastCall[k] = Call("UpdateConfigMap", "cm1", "conflict")
        /\ RecordsOf(cmStore[Key("default", "cm1")], rs[j]) # {}
        /\ RecordsOf(cmStore[Key("default", "cm1")], rs[k]) = {}

---------------------------------------------------------------------------
(* C14 *)

\* every existing ConfigMap the stored workload mounts holds its record
Linked(k) ==
    \A n \in MountedConfigMaps(rsStore[k]) :
        LET c == ObjectAt(cmStore, Key(k.namespace, n))
        IN  Exists(c) => RecordsOf(c, rsStore[k]) # {}

\* C14: under fair scheduling, once the key of a workload is queued (an
\* admitted event, or a requeue), every existing ConfigMap the workload mounts
\* eventually holds the workload's record.
C14_EventuallyLinked ==
    \A k \in Keys : (k \in queue) ~> Linked(k)

\* rs-a and rs-b, reconciled concurrently, both own cm1, after the Update
\* of one of them met a conflict and its Reconcile was run again
C14_Witness ==
    /\ \A k \in Keys : Exists(rsStore[k]) /\ Linked(k) /\ pc[k] = "idle" /\ result[k] = "ok"
    /\ cmStore[Key("default", "cm1")].resourceVersion = 2
    /\ \E k \in Keys : nGet[k] > 0 /\ nUpdate[k] = 1 /\ lastCall[k].out = "updated"
                       /\ cmStore[Key("default", "cm1")].ownerReferences[2].name = k.name
                       /\ Len(configMapNames[k]) = 2 /\ cm[k].resourceVersion = 1

---------------------------------------------------------------------------
(* C15 *)

\* the workload of key k is one whose reconciliation links ConfigMap c
Links(k, c) ==
    /\ Exists(rsStore[k])
    /\ shouldProcessNamespace(k.namespace)
    /\ ~createdBeforeStart(rsStore[k])
    /\ ~dryRunSkip
    /\ c.namespace = k.namespace
    /\ c.name \in MountedConfigMaps(rsStore[k])

\* what one complete reconciliation of k, alone, makes of the ConfigMap
AloneOn(k, cmObj) ==
    IF ~Exists(cmObj) \/ ~Links(k, Key(cmObj.namespace, cmObj.name)) THEN cmObj
    ELSE IF isOwnerReferencePresent(cmObj, rsStore[k]) THEN cmObj
    ELSE SetOwnerReference(rsStore[k], cmObj)

\* the records of a ConfigMap, as a set
Records(cmObj) == IF Exists(cmObj) THEN Range(cmObj.ownerReferences) ELSE {}

\* C15: when the reconciliations of both keys have returned without error,
\* however they were interleaved and retried, every ConfigMap holds the set
\* of records that reconciling first one key and then the other, alone,
\* makes of the ConfigMap as it was at the start, whichever key is first;
\* and a step of a reconciliation changes only a ConfigMap that its own
\* workload mounts, in the workload's namespace.
C15_ReconciliationsCommute ==
    /\ [](\A k, j \in Keys :
            (/\ k # j
             /\ pc[k] = "idle" /\ result[k] = "ok"
             /\ pc[j] = "idle" /\ result[j] = "ok")
            => \A c \in CMKeys :
                  Records(cmStore[c]) = Records(AloneOn(j, AloneOn(k, cmStore0[c]))))
    /\ [][\A c \in CMKeys : cmStore'[c] # cmStore[c] =>
            \E k \in Keys :
                /\ pc[k] = "update" /\ pc'[k] # "update"
                /\ c.namespace = k.namespace
                /\ c.name \in Range(configMapNames[k])
                /\ c.name \in MountedConfigMaps(rs[k])
                /\ \A d \in CMKeys \ {c} : cmStore'[d] = cmStore[d]]_vars

\* both reconciliations returned without error; cm1, which had no owner,
\* holds the record of j first and of k second, and j has been run again since
C15_Witness ==
    \E k, j \in Keys :
        /\ k # j
        /\ pc[k] = "idle" /\ result[k] = "ok" /\ pc[j] = "idle" /\ result[j] = "ok"
        /\ Links(k, Key("default", "cm1")) /\ Links(j, Key("default", "cm1"))
        /\ Exists(cmStore0[Key("default", "cm1")])
        /\ cmStore0[Key("default", "cm1")].ownerReferences = <<>>
        /\ Len(cmStore[Key("default", "cm1")].ownerReferences) = 2
        /\ cmStore[Key("default", "cm1")].ownerReferences[1].name = j.name
        /\ nGet[j] > nUpdate[j] /\ nUpdate[j] = 0
        /\ lastCall[k].out = "updated"

---------------------------------------------------------------------------
(* C16 *)

\* the step in which the Update of the reconciliation of k fails
UpdateFails(k) ==
    /\ pc[k] = "update" /\ pc'[k] # "update"
    /\ lastCall'[k].out # "updated"

\* C16: when the Update of the ConfigMap at position idx fails, for whatever
\* reason, that step ends the reconciliation with the error, changes no
\* ConfigMap and makes no further call; the reconciliation then has fetched
\* the names up to that position only, and every existing ConfigMap at an
\* earlier position holds the workload's record.
C16_PersistFailureStopsLoop ==
    /\ [][\A k \in Keys : UpdateFails(k) =>
              /\ pc'[k] = "idle" /\ result'[k] = "err"
              /\ cmStore' = cmStore
              /\ idx'[k] = idx[k] /\ nGet'[k] = nGet[k]
              /\ nUpdate'[k] = nUpdate[k] + 1]_vars
    /\ [](\A k \in Keys :
            (/\ pc[k] = "idle" /\ result[k] = "err"
             /\ lastCall[k].op = "UpdateConfigMap")
            => /\ lastCall[k].name = configMapNames[k][idx[k]]
               /\ nGet[k] = idx[k]
               /\ nUpdate[k] <= idx[k]
               /\ \A i \in 1..(idx[k] - 1) :
                     LET c == ObjectAt(cmStore, Key(k.namespace, configMapNames[k][i]))
                     IN  Exists(c) => RecordsOf(c, rs[k]) # {})

\* rs-a mounts cm2 and cm1: the record on cm2 was written, the Update of cm1
\* failed, Reconcile returned the error and cm1 is as it was
C16_Witness ==
    \E k \in Keys :
        /\ pc[k] = "idle" /\ result[k] = "err"
        /\ configMapNames[k] = <<"cm2", "cm1">> /\ idx[k] = 2
        /\ lastCall[k] = Call("UpdateConfigMap", "cm1", "error")
        /\ nUpdate[k] = 2
        /\ RecordsOf(cmStore[Key("default", "cm2")], rs[k]) # {}
        /\ cmStore[Key("default", "cm1")] = cmStore0[Key("default", "cm1")]

---------------------------------------------------------------------------
(* C17 *)

\* the pattern compiles and matches the namespace
WellFormedMatch(pattern, namespace) ==
    /\ ~Malformed(Chars(pattern))
    /\ MatchString(pattern, namespace).matched

\* C17: the filter answers true for every namespace when the pattern list is
\* empty, and otherwise exactly when some well-formed pattern of the list
\* matches the namespace, wherever malformed patterns stand in the list.
C17_FilterSkipsMalformed ==
    probe.fn = "shouldProcessNamespace" =>
        LET patterns == Config.NamespaceRegex
        IN  probe.ret = (\/ patterns = <<>>
                         \/ \E i \in 1..Len(patterns) :
                               WellFormedMatch(patterns[i], probe.arg))

\* the filter answered true with a malformed pattern standing before the
\* pattern that matches
C17_Witness ==
    /\ probe.fn = "shouldProcessNamespace"
    /\ probe.ret = TRUE
    /\ Len(Config.NamespaceRegex) = 2
    /\ Malformed(Chars(Config.NamespaceRegex[1]))
    /\ WellFormedMatch(Config.NamespaceRegex[2], probe.arg)

---------------------------------------------------------------------------
(* C18 *)

\* C18: after FinalizeConfig, whatever the flags and the environment were,
\* a configuration with Trace set has Debug set.
C18_TraceImpliesDebug ==
    main = "finalized" => (Config.Trace => Config.Debug)

---------------------------------------------------------------------------
(* C19 *)

\* the positions of the commas of a string, and the bounds around them
CommaCuts(str) == {0, Len(str) + 1} \cup {i \in 1..Len(str) : str[i] = ","}

\* element is what piece is without its leading and trailing spaces
IsTrimmed(element, piece) ==
    /\ element = <<>> \/ (element[1] # " " /\ element[Len(element)] # " ")
    /\ \E a, b \in 0..Len(piece) :
          /\ a + Len(element) + b = Len(piece)
          /\ \A i \in 1..Len(piece) :
                IF i <= a \/ i > a + Len(element) THEN piece[i] = " "
                ELSE piece[i] = element[i - a]

\* list holds, in order, the trimmed pieces between the commas of str
IsSplitAndTrimmed(list, str) ==
    LET cuts == CommaCuts(str)
        \* the i-th cut, counted from 0
        cut(i) == CHOOSE x \in cuts : Cardinality({y \in cuts : y < x}) = i
    IN  /\ Len(list) = Cardinality(cuts) - 1
        /\ \A i \in 1..Len(list) :
              IsTrimmed(list[i], SubSeq(str, cut(i - 1) + 1, cut(i) - 1))

\* C19: FinalizeConfig has made the pattern list from NAMESPACE_REGEX, split
\* on commas and trimmed, when the variable is not empty, whatever the flag;
\* from --namespace-regex, the same way, when the variable is unset or
\* empty; and DRY_RUN, DEBUG, TRACE equal to "true" set their setting
\* whatever the flag.
C19_EnvironmentOverridesFlags ==
    probe.fn = "FinalizeConfig" =>
        LET flags == probe.arg
            made == probe.ret
        IN  /\ Env["NAMESPACE_REGEX"] # <<>> =>
                  IsSplitAndTrimmed(made.NamespaceRegex, Env["NAMESPACE_REGEX"])
            /\ (Env["NAMESPACE_REGEX"] = <<>> /\ flags.namespaceRegexStr # <<>>) =>
                  IsSplitAndTrimmed(made.NamespaceRegex, flags.namespaceRegexStr)
            /\ (Env["NAMESPACE_REGEX"] = <<>> /\ flags.namespaceRegexStr = <<>>) =>
                  made.NamespaceRegex = <<>>
            /\ Env["DRY_RUN"] = trueValue => made.DryRun
            /\ Env["DEBUG"] = trueValue => made.Debug
            /\ Env["TRACE"] = trueValue => made.Trace
            /\ main = "finalized" => Config = made

\* NAMESPACE_REGEX "a, a" overrode --namespace-regex "b, c", and DRY_RUN
\* set dry-run though the flag was not given
C19_Witness ==
    /\ probe.fn = "FinalizeConfig"
    /\ probe.arg.namespaceRegexStr = <<"b", ",", " ", "c">>
    /\ Env["NAMESPACE_REGEX"] = <<"a", ",", " ">>
    /\ Config.NamespaceRegex = << <<"a">>, <<>> >>
    /\ ~probe.arg.DryRun /\ Env["DRY_RUN"] = trueValue /\ Config.DryRun

---------------------------------------------------------------------------
(* C20 *)

\* C20: LogLevel answers -2 for a configuration with Trace set, with or
\* without Debug, -1 with Debug set and Trace not, and 0 with neither.
C20_LogLevelTable ==
    probe.fn = "LogLevel" =>
        /\ probe.arg.Trace => probe.ret = -2
        /\ (probe.arg.Debug /\ ~probe.arg.Trace) => probe.ret = -1
        /\ (~probe.arg.Debug /\ ~probe.arg.Trace) => probe.ret = 0

\* LogLevel answered -2 for a configuration with both Trace and Debug set
C20_Witness ==
    /\ probe.fn = "LogLevel"
    /\ probe.arg.Trace /\ probe.arg.Debug
    /\ probe.ret = -2

---------------------------------------------------------------------------
(* C21 *)

\* what the reconciliation of key k holds; a step of it changes this
KeyState(k) ==
    <<pc[k], rs[k], configMapNames[k], idx[k], cm[k], result[k], lastCall[k],
      nGet[k], nUpdate[k]>>

\* the step in which a Get of the reconciliation of k fails other than by
\* not-found
GetFails(k) ==
    /\ KeyState(k)' # KeyState(k)
    /\ pc[k] \in {"idle", "loop"}
    /\ lastCall'[k].op \in {"GetReplicaSet", "GetConfigMap"}
    /\ lastCall'[k].out = "error"

\* C21: a Get of the workload or of a ConfigMap that fails other than by
\* not-found ends the reconciliation with the error in that step, which
\* writes nothing; the reconciliation has then made no Update at or after
\* the failing position and no call for a later name.
C21_FetchFailurePropagates ==
    /\ [][\A k \in Keys : GetFails(k) =>
              /\ pc'[k] = "idle" /\ result'[k] = "err"
              /\ cmStore' = cmStore /\ rsStore' = rsStore
              /\ pc[k] = "loop" => (idx'[k] = idx[k] /\ nUpdate'[k] = nUpdate[k])]_vars
    /\ [](\A k \in Keys :
            (pc[k] = "idle" /\ lastCall[k].out = "error" /\ lastCall[k].op # "UpdateConfigMap")
            => /\ result[k] = "err"
               /\ lastCall[k].op = "GetReplicaSet" =>
                     (nGet[k] = 0 /\ nUpdate[k] = 0 /\ configMapNames[k] = <<>>)
               /\ lastCall[k].op = "GetConfigMap" =>
                     /\ lastCall[k].name = configMapNames[k][idx[k]]
                     /\ nGet[k] = idx[k]
                     /\ nUpdate[k] < idx[k])

\* rs-a mounts cm2 and cm1: the record on cm2 was written, the Get of cm1
\* failed and Reconcile returned the error
C21_Witness ==
    \E k \in Keys :
        /\ pc[k] = "idle" /\ result[k] = "err"
        /\ configMapNames[k] = <<"cm2", "cm1">> /\ idx[k] = 2
        /\ lastCall[k] = Call("GetConfigMap", "cm1", "error")
        /\ nUpdate[k] = 1 /\ nGet[k] = 2

---------------------------------------------------------------------------
(* C22 *)

\* the record is one of the workload, and neither a controller reference
\* nor one that blocks the deletion of the owner
PlainRecordOf(ref, rsObj) ==
    /\ ref.kind = "ReplicaSet"
    /\ ref.name = rsObj.name
    /\ ref.uid = rsObj.uid
    /\ ref.controller # TRUE
    /\ ref.blockOwnerDeletion # TRUE

\* C22: a record that a step puts on a ConfigMap is a plain record of the
\* workload whose reconciliation made the Update, and every record that
\* was not on the ConfigMap at the start is a plain record of a workload.
C22_AddedRecordIsPlain ==
    /\ [][\A c \in CMKeys : Exists(cmStore'[c]) =>
              \A ref \in Records(cmStore'[c]) \ Records(cmStore[c]) :
                  \E k \in Keys :
                      /\ pc[k] = "update" /\ pc'[k] # "update"
                      /\ PlainRecordOf(ref, rs[k])]_vars
    /\ [](\A c \in CMKeys :
            \A ref \in Records(cmStore[c]) \ Records(cmStore0[c]) :
                \E k \in Keys : Exists(rsStore[k]) /\ PlainRecordOf(ref, rsStore[k]))

\* a ConfigMap that had a controller reference of a Deployment has gained,
\* behind it, the plain record of the reconciled workload
C22_Witness ==
    \E k \in Keys :
        /\ pc[k] = "idle" /\ result[k] = "ok" /\ Exists(rs[k])
        /\ Exists(cmStore[Key("default", "cm1")])
        /\ LET owners == cmStore[Key("default", "cm1")].ownerReferences
           IN  /\ Len(owners) = 2
               /\ owners[1].kind = "Deployment" /\ owners[1].controller
               /\ PlainRecordOf(owners[2], rs[k])
               /\ owners[2] \notin Records(cmStore0[Key("default", "cm1")])

---------------------------------------------------------------------------
(* C23 *)

\* the two objects differ at most in the owner references and in the
\* version the API server gives to each write
SameButOwners(a, b) ==
    [a EXCEPT !.ownerReferences = <<>>, !.resourceVersion = 0]
        = [b EXCEPT !.ownerReferences = <<>>, !.resourceVersion = 0]

\* C23: no step writes a workload; a ConfigMap that a step changes exists
\* before and after, lies in the namespace of the workload whose
\* reconciliation made the Update and is named in that reconciliation's
\* extracted names, and differs from what it was in its owner references
\* (and the version of the write) only; the object a reconciliation sends
\* to Update is the one it read but for the owner references.
C23_WritesOnlyOwnersOfOwnConfigMaps ==
    [][/\ rsStore' = rsStore
       /\ \A c \in CMKeys : cmStore'[c] # cmStore[c] =>
             /\ Exists(cmStore[c]) /\ Exists(cmStore'[c])
             /\ SameButOwners(cmStore[c], cmStore'[c])
             /\ cmStore'[c].ownerReferences # cmStore[c].ownerReferences
             /\ \E k \in Keys :
                   /\ pc[k] = "update" /\ pc'[k] # "update"
                   /\ c = Key(k.namespace, configMapNames[k][idx[k]])
                   /\ configMapNames[k] = extractConfigMapVolumes(rs[k])
       /\ \A k \in Keys : (pc[k] = "loop" /\ pc'[k] = "update") =>
             LET c == Key(k.namespace, configMapNames[k][idx[k]])
             IN  /\ SameButOwners(cmStore[c], cm'[k])
                 /\ cm'[k].resourceVersion = cmStore[c].resourceVersion]_vars

\* the workload in default has written default/cm1, whose data is as it
\* was, and kube-system/cm1 of the same name is as it was
C23_Witness ==
    \E k \in Keys :
        /\ lastCall[k] = Call("UpdateConfigMap", "cm1", "updated")
        /\ cmStore[Key("default", "cm1")] # cmStore0[Key("default", "cm1")]
        /\ cmStore[Key("default", "cm1")].data = cmStore0[Key("default", "cm1")].data
        /\ cmStore[Key("kube-system", "cm1")] = cmStore0[Key("kube-system", "cm1")]

---------------------------------------------------------------------------
(* C24 *)

\* the step in which the reconciliation of k has fetched the ConfigMap of
\* its current name
Fetched(k) ==
    /\ pc[k] = "loop"
    /\ nGet'[k] = nGet[k] + 1
    /\ lastCall'[k].out = "found"

\* the ConfigMap of the current name of the reconciliation of k, as stored
CurrentConfigMap(k) == cmStore[Key(k.namespace, configMapNames[k][idx[k]])]

\* C24 (as amended): with dry-run off, a reconciliation that has fetched a
\* ConfigMap goes on without an Update exactly when the ConfigMap holds a
\* record with the kind, the name and the uid of the workload; a record of
\* the same kind and name with another uid does not make it skip, and the
\* object it then sends to Update holds a record with the current uid.
C24_SkipIffPresentUnlessDryRun ==
    [][\A k \in Keys : (Fetched(k) /\ ~Config.DryRun) =>
          /\ pc'[k] # "update" <=> RecordsOf(CurrentConfigMap(k), rs[k]) # {}
          /\ pc'[k] = "update" => RecordsOf(cm'[k], rs[k]) # {}]_vars

\* cm1 holds the record of an earlier ReplicaSet named rs-a with another
\* uid; the reconciliation of rs-a is about to send its Update with a
\* record of the current uid
C24_Witness ==
    \E k \in Keys :
        /\ pc[k] = "update" /\ ~Config.DryRun
        /\ cm[k].name = "cm1"
        /\ \E i \in 1..Len(cmStore[Key("default", "cm1")].ownerReferences) :
              LET ref == cmStore[Key("default", "cm1")].ownerReferences[i]
              IN  ref.kind = "ReplicaSet" /\ ref.name = rs[k].name /\ ref.uid # rs[k].uid
        /\ RecordsOf(cmStore[Key("default", "cm1")], rs[k]) = {}
        /\ RecordsOf(cm[k], rs[k]) # {}

\* C24 as stated: a reconciliation that has fetched a ConfigMap goes on
\* without an Update exactly when the ConfigMap holds a record with the
\* kind, the name and the uid of the workload.
C24_SkipIffPresent ==
    [][\A k \in Keys : Fetched(k) =>
          (pc'[k] # "update" <=> RecordsOf(CurrentConfigMap(k), rs[k]) # {})]_vars

---------------------------------------------------------------------------
(* C25 *)

\* C25: a step that changes the owner references of a ConfigMap keeps
\* every record that was there, at its place and unchanged, and adds
\* exactly one record.
C25_ListsOnlyGrow ==
    [][\A c \in CMKeys :
          (Exists(cmStore[c]) /\ Exists(cmStore'[c]) /\ cmStore'[c] # cmStore[c]) =>
              LET before == cmStore[c].ownerReferences
                  after == cmStore'[c].ownerReferences
              IN  /\ Len(after) = Len(before) + 1
                  /\ \A i \in 1..Len(before) : after[i] = before[i]]_vars

---------------------------------------------------------------------------
(* C26 *)

\* the calls the running reconciliation of k can still make at most: a Get
\* and an Update for the current name and for every later one
CallsLeft(k) ==
    CASE pc[k] = "loop"   -> 2 * (Len(configMapNames[k]) - idx[k]) + 2
      [] pc[k] = "update" -> 2 * (Len(configMapNames[k]) - idx[k]) + 1
      [] OTHER            -> 0

\* C26: a call of Reconcile fetches the workload in its first step only;
\* every later step of it is one Get or one Update, moves forward in the
\* extracted names or returns, and never goes back to a name, so the call
\* returns after at most one Get and one Update per extracted name,
\* whatever the calls return; a failed call ends the reconciliation.
C26_NoRetryAndTerminates ==
    /\ [][\A k \in Keys : (pc[k] # "idle" /\ KeyState(k)' # KeyState(k)) =>
              /\ CallsLeft(k)' < CallsLeft(k)
              /\ lastCall'[k].op # "GetReplicaSet"
              /\ lastCall'[k].name = configMapNames[k][idx[k]]
              /\ nGet'[k] + nUpdate'[k] = nGet[k] + nUpdate[k] + 1
              /\ lastCall'[k].out \in {"error", "conflict"} => pc'[k] = "idle"]_vars
    /\ [](\A k \in Keys :
            /\ nGet[k] <= Len(configMapNames[k])
            /\ nUpdate[k] <= nGet[k]
            /\ pc[k] = "loop" => nGet[k] = idx[k] - 1
            /\ pc[k] = "update" => nGet[k] = idx[k] /\ nUpdate[k] < idx[k]
            /\ pc[k] # "idle" => idx[k] \in 1..Len(configMapNames[k]))

\* a reconciliation of two names has returned after two Gets and two
\* Updates, the second of which met a conflict
C26_Witness ==
    \E k \in Keys :
        /\ pc[k] = "idle" /\ result[k] = "err"
        /\ Len(configMapNames[k]) = 2
        /\ nGet[k] = 2 /\ nUpdate[k] = 2
        /\ lastCall[k].out = "conflict"

====
